---- MODULE Spec2Model ----
(***************************************************************************)
(* KeyOrbit-Server: the API token access control core.                     *)
(*                                                                         *)
(* The api_tokens collection, the TokenService handlers that read and      *)
(* write it, the token routes that wrap them, and the clock.               *)
(*                                                                         *)
(* Time is counted in half hours.  A datetime is represented by the UTC    *)
(* instant it denotes; a value read back from the store is naive and       *)
(* carries the UTC wall clock of that instant, so localising it as IST     *)
(* denotes an instant ISTOffset earlier.                                   *)
(***************************************************************************)
EXTENDS Integers, Sequences, FiniteSets, TLC

(* ------------------------------ bounds --------------------------------- *)
MaxTokens == 1
MaxTicks == 2
MaxCalls == 2
MaxSecrets == 2
MaxProcs == 2
MaxLogins == 1
MaxLoops == 2

(* ------------------------- program constants --------------------------- *)
ISTOffset == 11
DefaultExpiryDays == 90
DefaultRateLimit == 1000

None == "None"
NoIp == <<>>
NoMsg == <<>>
NoBody == [none |-> TRUE]
NoToken == [head |-> 0, tail |-> -1]
Users == {"A", "B"}
DefaultExpiry == DefaultExpiryDays * 48

(* ----------------------------- security.py ----------------------------- *)
\* secrets.token_urlsafe(64): the n-th draw of the random source.  A token
\* is its first 8 characters (head) followed by the rest (tail); two
\* different draws may share a head, never the whole string.
generate_api_token(n) == [head |-> (n + 1) \div 2, tail |-> n]

generate_token_preview(token) == [head |-> token.head]

\* bcrypt.hashpw(password, salt): the salt is kept in the hash.
hash_password(password, salt) ==
    [salt |-> salt, digest |-> <<salt, password>>]

\* bcrypt.checkpw: hash the password again under the stored salt.
verify_password(password, hashed_password) ==
    hashed_password.digest = <<hashed_password.salt, password>>

\* A datetime: tz = None for a naive value, whose t is its wall clock, and
\* tz = "IST" or "UTC" for an aware value, whose t is its UTC instant.
NoDate == [tz |-> "NoDate", t |-> 0]
Naive(t) == [tz |-> None, t |-> t]
Aware(zone, t) == [tz |-> zone, t |-> t]

\* IST.localize(naive): the wall clock read as IST is ISTOffset earlier in UTC.
IST_localize(dt) == Aware("IST", dt.t - ISTOffset)

\* UTC.localize(naive).astimezone(IST): the same instant.
UTC_localize(dt) == Aware("IST", dt.t)

\* is_token_expired(expires_at), the datetime branch, at clock current_utc.
is_token_expired(expires_at, current_utc) ==
    IF expires_at = NoDate THEN FALSE
    ELSE LET aware == IF expires_at.tz = None THEN IST_localize(expires_at)
                      ELSE expires_at
         IN  current_utc > aware.t

(* ------------------------------- state --------------------------------- *)
VARIABLES
    tokens,       \* db.api_tokens: _id (1..Len) -> document
    now,          \* the clock, a UTC instant
    drawn,        \* draws taken from the random source so far
    resp,         \* the last operation and what it returned
    retired,      \* history: secrets replaced by a regenerate
    lazyExpired,  \* history: _ids the validator has marked expired
    procs,        \* requests in flight (interleaved handlers)
    sessions,     \* the sessions collection: the JWTs that have a session record
    gate,         \* what the authentication middleware answered last
    req,          \* history: the body of the last creation request
    service,      \* the token cleanup service: its module, flag, thread and loops
    signed        \* history: the JWTs the server has signed

\* what the token handlers never touch
aux == <<sessions, gate, req, service, signed>>

vars == <<tokens, now, drawn, resp, retired, lazyExpired, procs,
          sessions, gate, req, service, signed>>

Ids == DOMAIN tokens

\* What the store keeps of a datetime: its UTC instant.
StoreDate(dt) == IF dt = NoDate THEN NoDate ELSE Aware("UTC", dt.t)

\* What pymongo hands back for a stored datetime: a naive UTC wall clock.
ReadDate(stored) == IF stored = NoDate THEN NoDate ELSE Naive(stored.t)

\* A document as a find returns it: its _id, and its dates naive.
Doc(coll, i) == [id |-> i] @@ [coll[i] EXCEPT !.expiresAt = ReadDate(@),
                                             !.lastUsed = ReadDate(@)]

(* ------------------------------ models.py ------------------------------ *)
\* ApiToken.create_token: insert_one of the document
ApiToken_create_token(coll, data) ==
    Append(coll, [userId |-> data.userId,
                  tokenHash |-> data.tokenHash,
                  tokenPreview |-> data.tokenPreview,
                  permissions |-> data.permissions,
                  scopes |-> data.scopes,
                  status |-> data.status,
                  rateLimit |-> data.rateLimit,
                  ipRestrictions |-> data.ipRestrictions,
                  expiresAt |-> StoreDate(data.expiresAt),
                  lastUsed |-> StoreDate(data.lastUsed),
                  lastUsedIp |-> data.lastUsedIp,
                  apiCalls |-> data.apiCalls])

\* the dates find_by_user makes aware: naive values are taken as UTC
LocalizeUTC(doc) ==
    [doc EXCEPT !.expiresAt = IF @.tz = None THEN UTC_localize(@) ELSE @,
                !.lastUsed = IF @.tz = None THEN UTC_localize(@) ELSE @]

\* the dates find_by_token_value makes aware: naive values are taken as IST
LocalizeIST(doc) ==
    [doc EXCEPT !.expiresAt = IF @.tz = None THEN IST_localize(@) ELSE @,
                !.lastUsed = IF @.tz = None THEN IST_localize(@) ELSE @]

\* ApiToken.find_by_user: the _ids, newest first, of the user's documents
\* that are not revoked
find_by_user(coll, user_id) ==
    LET n == Len(coll)
        newestFirst == [k \in 1..n |-> n + 1 - k]
        hit(i) == coll[i].userId = user_id /\ coll[i].status # "revoked"
    IN  SelectSeq(newestFirst, hit)

\* ApiToken.find_by_token_value: the first document among the active and
\* expired ones whose hash verifies the value; 0 for None
find_by_token_value(coll, token_value) ==
    LET hits == {i \in DOMAIN coll :
                   /\ coll[i].status \in {"active", "expired"}
                   /\ verify_password(token_value, coll[i].tokenHash)}
    IN  IF hits = {} THEN 0 ELSE CHOOSE i \in hits : \A j \in hits : i <= j

find_by_user_and_id_any(coll, user_id, token_id) ==
    IF token_id \in DOMAIN coll THEN token_id ELSE 0

\* ApiToken.find_by_user_and_id: 0 for None
find_by_user_and_id(coll, user_id, token_id) ==
    IF token_id \in DOMAIN coll /\ coll[token_id].userId = user_id
    THEN token_id ELSE 0

\* ApiToken.update_token: $set of the updates on the document
ApiToken_update_token(coll, token_id, updates) ==
    [coll EXCEPT ![token_id] =
        [k \in DOMAIN @ |-> IF k \in DOMAIN updates THEN updates[k] ELSE @[k]]]

increment_api_calls_rmw(coll, doc, ip_address, at) ==
    [coll EXCEPT ![doc.id].apiCalls = doc.apiCalls + 1,
                 ![doc.id].lastUsed = StoreDate(at),
                 ![doc.id].lastUsedIp = IF ip_address # NoIp THEN ip_address ELSE @]

\* ApiToken.increment_api_calls: one update_one with $inc and $set
ApiToken_increment_api_calls(coll, doc, ip_address, at) ==
    [coll EXCEPT ![doc.id].apiCalls = @ + 1,
                 ![doc.id].lastUsed = StoreDate(at),
                 ![doc.id].lastUsedIp = IF ip_address # NoIp THEN ip_address ELSE @]

\* ApiToken.revoke_token
ApiToken_revoke_token(coll, token_id) ==
    [coll EXCEPT ![token_id].status = "revoked"]

regenerate_token_drop_expiry(coll, token_id, new_token_hash, new_token_preview) ==
    [coll EXCEPT ![token_id].tokenHash = new_token_hash,
                 ![token_id].tokenPreview = new_token_preview,
                 ![token_id].lastUsed = NoDate,
                 ![token_id].lastUsedIp = NoIp,
                 ![token_id].apiCalls = 0,
                 ![token_id].expiresAt = NoDate]

regenerate_token_keep_usage(coll, token_id, new_token_hash, new_token_preview) ==
    [coll EXCEPT ![token_id].tokenHash = new_token_hash,
                 ![token_id].tokenPreview = new_token_preview]

\* ApiToken.regenerate_token
ApiToken_regenerate_token(coll, token_id, new_token_hash, new_token_preview) ==
    [coll EXCEPT ![token_id].tokenHash = new_token_hash,
                 ![token_id].tokenPreview = new_token_preview,
                 ![token_id].lastUsed = NoDate,
                 ![token_id].lastUsedIp = NoIp,
                 ![token_id].apiCalls = 0]

SetExpired_touch_usage(coll, token_id) ==
    [coll EXCEPT ![token_id].status = "expired", ![token_id].apiCalls = @ + 1]

\* update_one({"_id": ...}, {"$set": {"status": "expired"}})
SetExpired(coll, token_id) == [coll EXCEPT ![token_id].status = "expired"]

(* --------------------------- token_service.py -------------------------- *)
\* An address is its four octets; an allow-list entry is the text of an
\* address and a prefix length, represented by the numbers its numerals
\* denote (NoPrefix when the entry has no "/" part) and by whether a line
\* feed follows them.
NoPrefix == -1
Pow2(n) == LET p[k \in 0..31] == IF k = 0 THEN 1 ELSE 2 * p[k - 1] IN p[n]
IpInt(a) == ((a[1] * 256 + a[2]) * 256 + a[3]) * 256 + a[4]

\* ip_network(restriction, strict=False) parses: four octets 0..255, prefix
\* 0..32, and nothing after them
ParsesAsNetwork(e) ==
    /\ Len(e.addr) = 4
    /\ \A k \in 1..4 : e.addr[k] \in 0..255
    /\ e.prefix \in 0..32
    /\ ~e.lf

InNetwork_first_three_octets(client_ip, e) ==
    \A k \in 1..3 : client_ip[k] = e.addr[k]

\* ip_address(client_ip) in network: the first prefix bits agree
InNetwork(client_ip, e) ==
    \/ e.prefix = 0
    \/ IpInt(client_ip) \div Pow2(32 - e.prefix) = IpInt(e.addr) \div Pow2(32 - e.prefix)

\* TokenService._check_ip_restriction
check_ip_restriction(client_ip, ip_restrictions) ==
    IF Len(ip_restrictions) = 0 THEN TRUE
    ELSE IF client_ip = NoIp THEN FALSE
    ELSE IF \E k \in 1..Len(ip_restrictions) :
                /\ ip_restrictions[k].prefix = NoPrefix
                /\ ~ip_restrictions[k].lf
                /\ ip_restrictions[k].addr = client_ip
         THEN TRUE
    ELSE \E k \in 1..Len(ip_restrictions) :
            /\ ip_restrictions[k].prefix # NoPrefix
            /\ ParsesAsNetwork(ip_restrictions[k])
            /\ InNetwork(client_ip, ip_restrictions[k])

\* ipv4_pattern.match(ip): four numerals of one to three digits, optionally
\* "/" and a numeral of one or two digits; the final "$" also matches before
\* a line feed that ends the text
ipv4_pattern(e) ==
    /\ Len(e.addr) = 4
    /\ \A k \in 1..4 : e.addr[k] \in 0..999
    /\ e.prefix = NoPrefix \/ e.prefix \in 0..99

\* the checks on ipRestrictions in the creation route and in update_token:
\* the entries that fail them
InvalidEntries(ip_restrictions) ==
    {k \in 1..Len(ip_restrictions) :
        LET e == ip_restrictions[k]
        IN  \/ ~ipv4_pattern(e)
            \/ \E j \in 1..4 : e.addr[j] > 255
            \/ (e.prefix # NoPrefix /\ (e.prefix < 0 \/ e.prefix > 32))}

\* valid_permissions of the creation and permission routes
valid_permissions ==
    {"key:read", "key:write", "key:delete", "key:rotate",
     "audit:read", "admin:all", "user:read", "user:write",
     "policy:read", "policy:write", "token:read", "token:write"}

NotInFuture_strict(expires_at, current_ist) == expires_at.t < current_ist.t

\* expires_at <= current_ist
NotInFuture(expires_at, current_ist) == expires_at.t <= current_ist.t

(* ------------------------------- inputs -------------------------------- *)
Inside == <<10, 0, 0, 5>>
Outside == <<10, 0, 1, 5>>
Net24 == [addr |-> <<10, 0, 0, 0>>, prefix |-> 24, lf |-> FALSE]
ClientIps == {NoIp, Inside, Outside}
IpRestrictionInputs == {<<>>, <<Net24>>}
RequiredPermissions == {<<>>, <<"key:write">>}
RequiredScopes == {<<>>, <<"vault">>}
\* the request bodies of PUT /api-tokens/<id>/permissions
PermissionUpdates ==
    {[permissions |-> {"key:read", "key:write"}],
     [permissions |-> {"key:read"}, scopes |-> {"vault"}]}
\* the updates given to TokenService.update_token
TokenUpdates ==
    {[rateLimit |-> 5], [rateLimit |-> 20000], [status |-> "suspended"]}
LifecycleUpdates == {[rateLimit |-> 20000], [status |-> "suspended"]}
\* the expiresAt of a creation request: absent, not in the future, in the future
ExpiresAtInputs == {NoDate, Aware("UTC", now), Aware("UTC", now + ISTOffset)}
\* every token value drawn so far, and one that was never issued
Presented == {generate_api_token(n) : n \in 1..drawn} \cup {generate_api_token(0)}

\* the request threads of the server
Workers == 1..MaxProcs
\* a thread between requests: how many of its validations were granted, and
\* whether one of them was granted on a document another write had changed
Idle(granted, raced) ==
    [pc |-> "idle", token |-> NoBody, token_value |-> NoToken, client_ip |-> NoIp,
     granted |-> granted, raced |-> raced]

Response(op, user, id, http, ok, msg, body, token_value) ==
    [op |-> op, user |-> user, id |-> id, http |-> http, ok |-> ok,
     msg |-> msg, body |-> body, token_value |-> token_value]

\* what a middleware answered: the status, the authentication type it set on
\* the request when it let the request through, and the error body otherwise
GateResponse(mw, http, auth_type, error, message, code, token) ==
    [mw |-> mw, http |-> http, auth_type |-> auth_type, error |-> error,
     message |-> message, code |-> code, token |-> token]

(* --------------------------- initial state ----------------------------- *)
Init ==
    /\ tokens = <<>>
    /\ now = 0
    /\ drawn = 0
    /\ resp = Response("start", None, 0, 0, TRUE, NoMsg, NoBody, NoToken)
    /\ retired = {}
    /\ lazyExpired = {}
    /\ procs = [p \in Workers |-> Idle(0, FALSE)]
    /\ sessions = {}
    /\ gate = GateResponse("none", 0, None, NoMsg, NoMsg, None, NoToken)
    /\ req = NoBody
    /\ service = [module |-> "unloaded", is_running |-> FALSE, thread |-> "none",
                  loops |-> 0]
    /\ signed = {}

\* the clock advances
Tick ==
    /\ now < MaxTicks * ISTOffset
    /\ now' = now + ISTOffset
    /\ resp' = Response("tick", None, 0, 0, TRUE, NoMsg, NoBody, NoToken)
    /\ UNCHANGED <<tokens, drawn, retired, lazyExpired, procs>>

\* POST /api-tokens: routes/tokens.py create_api_token, then
\* TokenService.create_api_token
route_create_api_token(user_id, data) ==
    LET refuse(msg) == Response("create", user_id, 0, 400, FALSE, msg, NoBody, NoToken)
    IN
    /\ Len(tokens) < MaxTokens
    /\ drawn < MaxSecrets
    /\ IF data.permissions = {}
       THEN /\ resp' = refuse(<<"At", "least", "one", "permission", "is", "required">>)
            /\ UNCHANGED <<tokens, drawn>>
       ELSE IF ~(data.permissions \subseteq valid_permissions)
       THEN /\ resp' = refuse(<<"Invalid", "permission:",
                                CHOOSE perm \in data.permissions : perm \notin valid_permissions>>)
            /\ UNCHANGED <<tokens, drawn>>
       ELSE IF data.expiresAt # NoDate /\ NotInFuture(data.expiresAt, Aware("IST", now))
       THEN /\ resp' = refuse(<<"Expiration", "date", "must", "be", "in", "the", "future">>)
            /\ UNCHANGED <<tokens, drawn>>
       ELSE IF InvalidEntries(data.ipRestrictions) # {}
       THEN /\ resp' = refuse(<<"Invalid", "IP", "address">>)
            /\ UNCHANGED <<tokens, drawn>>
       ELSE LET token_value == generate_api_token(drawn + 1)
                token_preview == generate_token_preview(token_value)
                token_hash == hash_password(token_value, drawn + 1)
                current_ist == Aware("IST", now)
                expires_at == IF data.expiresAt # NoDate
                              THEN Aware("IST", data.expiresAt.t)
                              ELSE Aware("IST", current_ist.t + DefaultExpiry)
                token_db_data ==
                    [userId |-> user_id, tokenHash |-> token_hash,
                     tokenPreview |-> token_preview,
                     permissions |-> data.permissions, scopes |-> {},
                     status |-> "active", rateLimit |-> DefaultRateLimit,
                     ipRestrictions |-> data.ipRestrictions,
                     expiresAt |-> expires_at, lastUsed |-> NoDate,
                     lastUsedIp |-> NoIp, apiCalls |-> 0]
            IN  /\ tokens' = ApiToken_create_token(tokens, token_db_data)
                /\ drawn' = drawn + 1
                /\ resp' = Response("create", user_id, Len(tokens) + 1, 201, TRUE, NoMsg,
                       [id |-> Len(tokens) + 1, token |-> token_value,
                        tokenPreview |-> token_preview,
                        permissions |-> data.permissions, scopes |-> {},
                        expiresAt |-> expires_at, rateLimit |-> DefaultRateLimit,
                        ipRestrictions |-> data.ipRestrictions, status |-> "active"],
                       NoToken)
    /\ UNCHANGED <<now, retired, lazyExpired, procs>>

\* the creation request of a token that may read keys
create_api_token(user_id, ip_restrictions, expiresAt) ==
    route_create_api_token(user_id, [permissions |-> {"key:read"},
                                     ipRestrictions |-> ip_restrictions,
                                     expiresAt |-> expiresAt])

validate_found_permissions_first(token, token_value, required_permissions, required_scopes, client_ip) ==
    LET missing(required, have) ==
            {k \in 1..Len(required) : required[k] \notin have}
        first(S) == CHOOSE k \in S : \A j \in S : k <= j
        fail(msg) == Response("validate", None, token.id, 0, FALSE, msg, NoBody, token_value)
    IN  IF token.status # "active"
        THEN /\ resp' = fail(<<"Token", "is", token.status>>)
             /\ UNCHANGED <<tokens, lazyExpired>>
        ELSE IF token.expiresAt # NoDate /\ is_token_expired(token.expiresAt, now)
        THEN /\ tokens' = SetExpired(tokens, token.id)
             /\ lazyExpired' = lazyExpired \cup {token.id}
             /\ resp' = fail(<<"Token", "has", "expired">>)
        ELSE IF missing(required_permissions, token.permissions) # {}
        THEN /\ resp' = fail(<<"Insufficient", "permissions:",
                  required_permissions[first(missing(required_permissions, token.permissions))]>>)
             /\ UNCHANGED <<tokens, lazyExpired>>
        ELSE IF Len(token.ipRestrictions) > 0 /\ client_ip = NoIp
        THEN /\ resp' = fail(<<"IP", "address", "required", "for", "this", "token">>)
             /\ UNCHANGED <<tokens, lazyExpired>>
        ELSE IF /\ Len(token.ipRestrictions) > 0
                /\ ~check_ip_restriction(client_ip, token.ipRestrictions)
        THEN /\ resp' = fail(<<"IP", "address", ToString(client_ip), "not", "allowed",
                                "for", "this", "token">>)
             /\ UNCHANGED <<tokens, lazyExpired>>
        ELSE IF missing(required_scopes, token.scopes) # {}
        THEN /\ resp' = fail(<<"Insufficient", "scopes:",
                  required_scopes[first(missing(required_scopes, token.scopes))]>>)
             /\ UNCHANGED <<tokens, lazyExpired>>
        ELSE /\ token.apiCalls < MaxCalls
             /\ tokens' = ApiToken_increment_api_calls(tokens, token, client_ip, Aware("IST", now))
             /\ resp' = Response("validate", None, token.id, 0, TRUE,
                                 <<"Access", "granted">>,
                                 [userId |-> token.userId, tokenId |-> token.id,
                                  permissions |-> token.permissions,
                                  scopes |-> token.scopes,
                                  rateLimit |-> token.rateLimit,
                                  ipRestrictions |-> token.ipRestrictions],
                                 token_value)
             /\ UNCHANGED lazyExpired

\* TokenService.validate_token_access after the lookup: the checks on the
\* document the lookup returned, in the order of the code, and the usage
\* update when all pass
validate_found(token, token_value, required_permissions, required_scopes, client_ip) ==
    LET missing(required, have) ==
            {k \in 1..Len(required) : required[k] \notin have}
        first(S) == CHOOSE k \in S : \A j \in S : k <= j
        fail(msg) == Response("validate", None, token.id, 0, FALSE, msg, NoBody, token_value)
    IN  IF token.status # "active"
        THEN /\ resp' = fail(<<"Token", "is", token.status>>)
             /\ UNCHANGED <<tokens, lazyExpired>>
        ELSE IF token.expiresAt # NoDate /\ is_token_expired(token.expiresAt, now)
        THEN /\ tokens' = SetExpired(tokens, token.id)
             /\ lazyExpired' = lazyExpired \cup {token.id}
             /\ resp' = fail(<<"Token", "has", "expired">>)
        ELSE IF Len(token.ipRestrictions) > 0 /\ client_ip = NoIp
        THEN /\ resp' = fail(<<"IP", "address", "required", "for", "this", "token">>)
             /\ UNCHANGED <<tokens, lazyExpired>>
        ELSE IF /\ Len(token.ipRestrictions) > 0
                /\ ~check_ip_restriction(client_ip, token.ipRestrictions)
        THEN /\ resp' = fail(<<"IP", "address", ToString(client_ip), "not", "allowed",
                                "for", "this", "token">>)
             /\ UNCHANGED <<tokens, lazyExpired>>
        ELSE IF missing(required_permissions, token.permissions) # {}
        THEN /\ resp' = fail(<<"Insufficient", "permissions:",
                  required_permissions[first(missing(required_permissions, token.permissions))]>>)
             /\ UNCHANGED <<tokens, lazyExpired>>
        ELSE IF missing(required_scopes, token.scopes) # {}
        THEN /\ resp' = fail(<<"Insufficient", "scopes:",
                  required_scopes[first(missing(required_scopes, token.scopes))]>>)
             /\ UNCHANGED <<tokens, lazyExpired>>
        ELSE /\ token.apiCalls < MaxCalls
             /\ tokens' = ApiToken_increment_api_calls(tokens, token, client_ip, Aware("IST", now))
             /\ resp' = Response("validate", None, token.id, 0, TRUE,
                                 <<"Access", "granted">>,
                                 [userId |-> token.userId, tokenId |-> token.id,
                                  permissions |-> token.permissions,
                                  scopes |-> token.scopes,
                                  rateLimit |-> token.rateLimit,
                                  ipRestrictions |-> token.ipRestrictions],
                                 token_value)
             /\ UNCHANGED lazyExpired

\* TokenService.validate_token_access, one request served without interleaving
validate_token_access(token_value, required_permissions, required_scopes, client_ip) ==
    LET found == find_by_token_value(tokens, token_value)
    IN  /\ IF found = 0
           THEN /\ resp' = Response("validate", None, 0, 0, FALSE,
                                    <<"Invalid", "token">>, NoBody, token_value)
                /\ UNCHANGED <<tokens, lazyExpired>>
           ELSE validate_found(LocalizeIST(Doc(tokens, found)), token_value,
                               required_permissions, required_scopes, client_ip)
        /\ UNCHANGED <<now, drawn, retired, procs>>

FormatToken_with_hash(token, status) ==
    [id |-> token.id, tokenPreview |-> token.tokenPreview,
     tokenHash |-> token.tokenHash,
     permissions |-> token.permissions, scopes |-> token.scopes,
     status |-> status, rateLimit |-> token.rateLimit,
     ipRestrictions |-> token.ipRestrictions, lastUsed |-> token.lastUsed,
     expiresAt |-> token.expiresAt, apiCalls |-> token.apiCalls,
     lastUsedIp |-> token.lastUsedIp]

\* the fields of a token in a listing or detail response
FormatToken(token, status) ==
    [id |-> token.id, tokenPreview |-> token.tokenPreview,
     permissions |-> token.permissions, scopes |-> token.scopes,
     status |-> status, rateLimit |-> token.rateLimit,
     ipRestrictions |-> token.ipRestrictions, lastUsed |-> token.lastUsed,
     expiresAt |-> token.expiresAt, apiCalls |-> token.apiCalls,
     lastUsedIp |-> token.lastUsedIp]

\* TokenService.get_token_stats: counts over find_by_user
get_token_stats(coll, user_id) ==
    LET found == find_by_user(coll, user_id)
        ids == {found[k] : k \in 1..Len(found)}
        count(st) == Cardinality({i \in ids : coll[i].status = st})
        calls[S \in SUBSET ids] ==
            IF S = {} THEN 0
            ELSE LET i == CHOOSE j \in S : TRUE
                 IN  coll[i].apiCalls + calls[S \ {i}]
    IN  [total |-> Len(found), active |-> count("active"),
         expired |-> count("expired"), revoked |-> count("revoked"),
         total_api_calls |-> calls[ids],
         with_ip_restrictions |->
             Cardinality({i \in ids : Len(coll[i].ipRestrictions) > 0})]

\* the documents a listing marks expired: active, with an expiry that has passed
ListingExpired(coll, user_id, current_utc) ==
    LET found == find_by_user(coll, user_id)
    IN  {found[k] : k \in {j \in 1..Len(found) :
            LET token == LocalizeUTC(Doc(coll, found[j]))
            IN  /\ token.status = "active"
                /\ token.expiresAt # NoDate
                /\ is_token_expired(token.expiresAt, current_utc)}}

\* ApiToken.update_token(id, {"status": "expired"}) on each of a set of _ids
MarkExpired(coll, S) ==
    [i \in DOMAIN coll |->
        IF i \in S THEN ApiToken_update_token(coll, i, [status |-> "expired"])[i]
        ELSE coll[i]]

\* GET /api-tokens: TokenService.get_user_tokens, then get_token_stats
get_user_tokens(user_id) ==
    LET found == find_by_user(tokens, user_id)
        late == ListingExpired(tokens, user_id, now)
        after == MarkExpired(tokens, late)
        formatted == [k \in 1..Len(found) |->
            LET token == LocalizeUTC(Doc(tokens, found[k]))
            IN  FormatToken(token, IF found[k] \in late THEN "expired"
                                   ELSE token.status)]
    IN  /\ tokens' = after
        /\ resp' = Response("list", user_id, 0, 200, TRUE, NoMsg,
                            [tokens |-> formatted,
                             stats |-> get_token_stats(after, user_id)],
                            NoToken)
        /\ UNCHANGED <<now, drawn, retired, lazyExpired, procs>>

\* GET /api-tokens/<id>, /usage (usage = TRUE): TokenService.get_token_details
get_token_details(user_id, token_id, usage) ==
    LET found == find_by_user_and_id(tokens, user_id, token_id)
        token == Doc(tokens, found)
        late == /\ token.status = "active"
                /\ token.expiresAt # NoDate
                /\ is_token_expired(token.expiresAt, now)
        status == IF late THEN "expired" ELSE token.status
        details == FormatToken(token, status)
    IN  /\ IF found = 0
           THEN /\ resp' = Response("details", user_id, token_id, 404, FALSE,
                                    <<"Token", "not", "found">>, NoBody, NoToken)
                /\ UNCHANGED tokens
           ELSE /\ tokens' = IF late
                             THEN ApiToken_update_token(tokens, found,
                                                        [status |-> "expired"])
                             ELSE tokens
                /\ resp' = Response("details", user_id, token_id, 200, TRUE, NoMsg,
                       IF usage
                       THEN [totalCalls |-> details.apiCalls,
                             lastUsed |-> details.lastUsed,
                             lastUsedIp |-> details.lastUsedIp,
                             status |-> details.status,
                             rateLimit |-> details.rateLimit]
                       ELSE details,
                       NoToken)
        /\ UNCHANGED <<now, drawn, retired, lazyExpired, procs>>

\* GET /api-tokens/stats
route_get_token_stats(user_id) ==
    /\ resp' = Response("stats", user_id, 0, 200, TRUE, NoMsg,
                        get_token_stats(tokens, user_id), NoToken)
    /\ UNCHANGED <<tokens, now, drawn, retired, lazyExpired, procs>>

\* the status a route answers for the (result, error) a service returned
RouteStatus(error) == IF error # NoMsg THEN 400 ELSE 200

\* POST /api-tokens/<id>/regenerate: TokenService.regenerate_api_token
regenerate_api_token(user_id, token_id) ==
    LET found == find_by_user_and_id(tokens, user_id, token_id)
        token == Doc(tokens, found)
        new_token_value == generate_api_token(drawn + 1)
        new_token_preview == generate_token_preview(new_token_value)
        new_token_hash == hash_password(new_token_value, drawn + 1)
        after == ApiToken_regenerate_token(tokens, token_id, new_token_hash,
                                           new_token_preview)
        refuse(msg) == Response("regenerate", user_id, token_id, RouteStatus(msg),
                                FALSE, msg, NoBody, NoToken)
    IN  /\ drawn < MaxSecrets
        /\ IF found = 0
           THEN /\ resp' = refuse(<<"Token", "not", "found">>)
                /\ UNCHANGED <<tokens, drawn, retired>>
           ELSE IF token.status # "active"
           THEN /\ resp' = refuse(<<"Cannot", "regenerate", token.status, "token">>)
                /\ UNCHANGED <<tokens, drawn, retired>>
           ELSE /\ tokens' = after
                /\ drawn' = drawn + 1
                /\ retired' = retired \cup
                       {generate_api_token(n) : n \in {m \in 1..drawn :
                           verify_password(generate_api_token(m), token.tokenHash)}}
                /\ resp' = Response("regenerate", user_id, token_id, RouteStatus(NoMsg),
                       TRUE, NoMsg,
                       [id |-> token_id, token |-> new_token_value,
                        tokenPreview |-> new_token_preview,
                        permissions |-> token.permissions,
                        expiresAt |-> IST_localize(Doc(after, token_id).expiresAt)],
                       NoToken)
        /\ UNCHANGED <<now, lazyExpired, procs>>

\* POST /api-tokens/<id>/revoke: TokenService.revoke_api_token
revoke_api_token(user_id, token_id) ==
    LET found == find_by_user_and_id(tokens, user_id, token_id)
        token == Doc(tokens, found)
    IN  /\ IF found = 0
           THEN /\ resp' = Response("revoke", user_id, token_id,
                                    RouteStatus(<<"Token", "not", "found">>), FALSE,
                                    <<"Token", "not", "found">>, NoBody, NoToken)
                /\ UNCHANGED tokens
           ELSE IF token.status = "revoked"
           THEN /\ resp' = Response("revoke", user_id, token_id,
                                    RouteStatus(<<"Token", "already", "revoked">>), TRUE,
                                    <<"Token", "already", "revoked">>, NoBody, NoToken)
                /\ UNCHANGED tokens
           ELSE /\ tokens' = ApiToken_revoke_token(tokens, token_id)
                /\ resp' = Response("revoke", user_id, token_id, RouteStatus(NoMsg),
                                    TRUE, NoMsg, NoBody, NoToken)
        /\ UNCHANGED <<now, drawn, retired, lazyExpired, procs>>

\* PUT /api-tokens/<id>/permissions: TokenService.update_token_permissions
update_token_permissions(user_id, token_id, data) ==
    LET found == find_by_user_and_id(tokens, user_id, token_id)
        token == Doc(tokens, found)
        updates == IF "scopes" \in DOMAIN data
                   THEN [permissions |-> data.permissions, scopes |-> data.scopes]
                   ELSE [permissions |-> data.permissions]
        refuse(msg) == Response("permissions", user_id, token_id, RouteStatus(msg),
                                FALSE, msg, NoBody, NoToken)
    IN  /\ IF ~(data.permissions \subseteq valid_permissions)
           THEN /\ resp' = refuse(<<"Invalid", "permission:",
                       CHOOSE perm \in data.permissions : perm \notin valid_permissions>>)
                /\ UNCHANGED tokens
           ELSE IF found = 0
           THEN /\ resp' = refuse(<<"Token", "not", "found">>)
                /\ UNCHANGED tokens
           ELSE IF token.status # "active"
           THEN /\ resp' = refuse(<<"Cannot", "update", token.status, "token">>)
                /\ UNCHANGED tokens
           ELSE /\ tokens' = ApiToken_update_token(tokens, token_id, updates)
                /\ resp' = Response("permissions", user_id, token_id,
                                    RouteStatus(NoMsg), TRUE, NoMsg, NoBody, NoToken)
        /\ UNCHANGED <<now, drawn, retired, lazyExpired, procs>>

\* TokenService.update_token
update_token(user_id, token_id, updates) ==
    LET found == find_by_user_and_id(tokens, user_id, token_id)
        token == Doc(tokens, found)
        refuse(msg) == Response("update", user_id, token_id, 0, FALSE, msg,
                                NoBody, NoToken)
    IN  /\ IF found = 0
           THEN /\ resp' = refuse(<<"Token", "not", "found">>)
                /\ UNCHANGED tokens
           ELSE IF token.status # "active"
           THEN /\ resp' = refuse(<<"Cannot", "update", token.status, "token">>)
                /\ UNCHANGED tokens
           ELSE IF /\ "expiresAt" \in DOMAIN updates
                   /\ updates.expiresAt # NoDate
                   /\ NotInFuture(updates.expiresAt, Aware("IST", now))
           THEN /\ resp' = refuse(<<"Expiration", "date", "must", "be", "in", "the", "future">>)
                /\ UNCHANGED tokens
           ELSE IF /\ "rateLimit" \in DOMAIN updates
                   /\ (updates.rateLimit < 1 \/ updates.rateLimit > 10000)
           THEN /\ resp' = refuse(<<"Rate", "limit", "must", "be", "between",
                                    "1", "and", "10000">>)
                /\ UNCHANGED tokens
           ELSE IF /\ "ipRestrictions" \in DOMAIN updates
                   /\ InvalidEntries(updates.ipRestrictions) # {}
           THEN /\ resp' = refuse(<<"Invalid", "IP", "address">>)
                /\ UNCHANGED tokens
           ELSE IF "_id" \in DOMAIN updates /\ updates._id # token_id
           THEN /\ resp' = refuse(<<"WriteError:", "_id", "is", "immutable">>)
                /\ UNCHANGED tokens
           ELSE /\ tokens' = ApiToken_update_token(tokens, token_id, updates)
                /\ resp' = Response("update", user_id, token_id, 0, TRUE,
                                    <<"Token", "updated", "successfully">>,
                                    NoBody, NoToken)
        /\ UNCHANGED <<now, drawn, retired, lazyExpired, procs>>

\* the documents TokenService.cleanup_expired_tokens marks expired
CleanupExpired(coll, current_utc) ==
    {i \in DOMAIN coll :
        LET token == Doc(coll, i)
        IN  /\ token.status = "active"
            /\ token.expiresAt # NoDate
            /\ current_utc > IST_localize(token.expiresAt).t}

\* TokenService.cleanup_expired_tokens
cleanup_expired_tokens ==
    LET late == CleanupExpired(tokens, now)
    IN  /\ tokens' = [i \in DOMAIN tokens |->
                         IF i \in late THEN SetExpired(tokens, i)[i] ELSE tokens[i]]
        /\ resp' = Response("cleanup", None, 0, 0, TRUE, NoMsg,
                            [cleaned |-> Cardinality(late)], NoToken)
        /\ UNCHANGED <<now, drawn, retired, lazyExpired, procs>>

TokenIds == 1..MaxTokens

(* -------------------------- token lifecycle --------------------------- *)
\* Requests of both users against the store, one at a time: every route of
\* routes/tokens.py, the validator without access requirements, the cleanup
\* and the clock.
Next ==
    \/ Tick /\ UNCHANGED aux
    \/ \E u \in Users, e \in ExpiresAtInputs : create_api_token(u, <<>>, e) /\ UNCHANGED aux
    \/ \E v \in Presented, c \in {NoIp, Inside} :
          validate_token_access(v, <<>>, <<>>, c) /\ UNCHANGED aux
    \/ \E u \in Users : get_user_tokens(u) /\ UNCHANGED aux
    \/ \E u \in Users, i \in TokenIds, usage \in BOOLEAN : get_token_details(u, i, usage) /\ UNCHANGED aux
    \/ \E u \in Users : route_get_token_stats(u) /\ UNCHANGED aux
    \/ \E u \in Users, i \in TokenIds : regenerate_api_token(u, i) /\ UNCHANGED aux
    \/ \E u \in Users, i \in TokenIds : revoke_api_token(u, i) /\ UNCHANGED aux
    \/ \E u \in Users, i \in TokenIds :
          update_token_permissions(u, i, [permissions |-> {"key:read", "key:write"}]) /\ UNCHANGED aux
    \/ \E u \in Users, i \in TokenIds, d \in LifecycleUpdates : update_token(u, i, d) /\ UNCHANGED aux
    \/ cleanup_expired_tokens /\ UNCHANGED aux

Spec == Init /\ [][Next]_vars

(* ---------------------------- access checks --------------------------- *)
\* The validator with every access requirement: tokens with and without an
\* IP allow-list, requests with and without an address, required permissions
\* and scopes, and the owner's changes of permissions and limits.
NextAccess ==
    \/ Tick /\ UNCHANGED aux
    \/ \E r \in IpRestrictionInputs, e \in {NoDate, Aware("UTC", now + ISTOffset)} :
          create_api_token("A", r, e) /\ UNCHANGED aux
    \/ \E v \in Presented, rp \in RequiredPermissions, rs \in RequiredScopes,
          c \in ClientIps : validate_token_access(v, rp, rs, c) /\ UNCHANGED aux
    \/ \E i \in TokenIds, d \in PermissionUpdates : update_token_permissions("A", i, d) /\ UNCHANGED aux
    \/ \E i \in TokenIds, d \in TokenUpdates : update_token("A", i, d) /\ UNCHANGED aux
    \/ \E i \in TokenIds : revoke_api_token("A", i) /\ UNCHANGED aux

SpecAccess == Init /\ [][NextAccess]_vars

(* ------------------------- concurrent validation ----------------------- *)
\* Flask serves each request on its own thread and validate_token_access
\* holds no lock: the lookup, the checks on the document it returned and the
\* usage update are separate store operations, interleaved with the other
\* threads'.

\* validate_token_access up to the return of ApiToken.find_by_token_value
validate_lookup(p, token_value, client_ip) ==
    LET found == find_by_token_value(tokens, token_value)
    IN  /\ procs[p].pc = "idle"
        /\ IF found = 0
           THEN /\ resp' = Response("validate", None, 0, 0, FALSE,
                                    <<"Invalid", "token">>, NoBody, token_value)
                /\ UNCHANGED procs
           ELSE /\ procs' = [procs EXCEPT ![p] =
                                [pc |-> "found", token |-> LocalizeIST(Doc(tokens, found)),
                                 token_value |-> token_value, client_ip |-> client_ip,
                                 granted |-> @.granted, raced |-> @.raced]]
                /\ resp' = Response("lookup", None, found, 0, TRUE, NoMsg, NoBody,
                                    token_value)
        /\ UNCHANGED <<tokens, now, drawn, retired, lazyExpired>>

\* validate_token_access from the status check to its return
validate_finish(p) ==
    LET token == procs[p].token
    IN  /\ procs[p].pc = "found"
        /\ validate_found(token, procs[p].token_value, <<>>, <<>>, procs[p].client_ip)
        /\ procs' = [procs EXCEPT ![p] =
                        Idle(@.granted + (IF resp'.ok THEN 1 ELSE 0),
                             @.raced \/ (resp'.ok /\ Doc(tokens, token.id).apiCalls
                                                        # token.apiCalls))]
        /\ UNCHANGED <<now, drawn, retired>>

NextConc ==
    \/ Tick /\ UNCHANGED aux
    \/ \E e \in {NoDate, Aware("UTC", now + ISTOffset)} : create_api_token("A", <<>>, e) /\ UNCHANGED aux
    \/ \E p \in Workers, v \in Presented, c \in {NoIp, Inside} : validate_lookup(p, v, c) /\ UNCHANGED aux
    \/ \E p \in Workers : validate_finish(p) /\ UNCHANGED aux
    \/ \E i \in TokenIds : revoke_api_token("A", i) /\ UNCHANGED aux

SpecConc == Init /\ [][NextConc]_vars

(* ---------------------- concurrent owner requests ---------------------- *)
\* TokenService.update_token_permissions up to its status check: the
\* document find_by_user_and_id returned is active, and the thread goes on to
\* the write
update_permissions_lookup(p, user_id, token_id, data) ==
    LET found == find_by_user_and_id(tokens, user_id, token_id)
        token == Doc(tokens, found)
        updates == IF "scopes" \in DOMAIN data
                   THEN [permissions |-> data.permissions, scopes |-> data.scopes]
                   ELSE [permissions |-> data.permissions]
        refuse(msg) == Response("permissions", user_id, token_id, RouteStatus(msg),
                                FALSE, msg, NoBody, NoToken)
    IN  /\ procs[p].pc = "idle"
        /\ IF found = 0
           THEN /\ resp' = refuse(<<"Token", "not", "found">>)
                /\ UNCHANGED procs
           ELSE IF token.status # "active"
           THEN /\ resp' = refuse(<<"Cannot", "update", token.status, "token">>)
                /\ UNCHANGED procs
           ELSE /\ procs' = [procs EXCEPT ![p] =
                                [pc |-> "checked", token |-> token,
                                 token_value |-> NoToken, client_ip |-> NoIp,
                                 granted |-> @.granted, raced |-> @.raced,
                                 user_id |-> user_id, updates |-> updates]]
                /\ resp' = Response("lookup", user_id, token_id, 0, TRUE, NoMsg,
                                    NoBody, NoToken)
        /\ UNCHANGED <<tokens, now, drawn, retired, lazyExpired>>

\* TokenService.update_token_permissions from ApiToken.update_token to its
\* return
update_permissions_write(p) ==
    LET token == procs[p].token
    IN  /\ procs[p].pc = "checked"
        /\ tokens' = ApiToken_update_token(tokens, token.id, procs[p].updates)
        /\ resp' = Response("permissions", procs[p].user_id, token.id,
                            RouteStatus(NoMsg), TRUE, NoMsg, NoBody, NoToken)
        /\ procs' = [procs EXCEPT ![p] = Idle(@.granted, @.raced)]
        /\ UNCHANGED <<now, drawn, retired, lazyExpired>>

\* Permission updates in flight on the request threads while the owner
\* revokes and a presented token expires.
NextRace ==
    \/ Tick /\ UNCHANGED aux
    \/ \E e \in {NoDate, Aware("UTC", now + ISTOffset)} :
          create_api_token("A", <<>>, e) /\ UNCHANGED aux
    \/ \E v \in Presented : validate_token_access(v, <<>>, <<>>, NoIp) /\ UNCHANGED aux
    \/ \E p \in Workers, i \in TokenIds, d \in PermissionUpdates :
          update_permissions_lookup(p, "A", i, d) /\ UNCHANGED aux
    \/ \E p \in Workers : update_permissions_write(p) /\ UNCHANGED aux
    \/ \E i \in TokenIds : revoke_api_token("A", i) /\ UNCHANGED aux

SpecRace == Init /\ [][NextRace]_vars

\* Validations in flight on the request threads while the owner regenerates
\* the token.
NextRotate ==
    \/ create_api_token("A", <<>>, NoDate) /\ UNCHANGED aux
    \/ \E p \in Workers, v \in Presented : validate_lookup(p, v, NoIp) /\ UNCHANGED aux
    \/ \E p \in Workers : validate_finish(p) /\ UNCHANGED aux
    \/ \E i \in TokenIds : regenerate_api_token("A", i) /\ UNCHANGED aux

SpecRotate == Init /\ [][NextRotate]_vars

(* ------------------------------ write paths ---------------------------- *)
\* 10.0.0.0/24 followed by a line feed, 10.0.0.0/33 and 10.0.0.300
Net24Lf == [addr |-> <<10, 0, 0, 0>>, prefix |-> 24, lf |-> TRUE]
Net33 == [addr |-> <<10, 0, 0, 0>>, prefix |-> 33, lf |-> FALSE]
Octet300 == [addr |-> <<10, 0, 0, 300>>, prefix |-> NoPrefix, lf |-> FALSE]

\* the bodies of POST /api-tokens
CreateRequests ==
    {[permissions |-> ps, ipRestrictions |-> r, expiresAt |-> e] :
        ps \in {{"key:read"}, {"key:read", "root:all"}},
        r \in {<<>>, <<Net24>>, <<Net24Lf>>, <<Net33>>, <<Octet300>>},
        e \in ExpiresAtInputs}

\* the bodies of PUT /api-tokens/<id>/permissions
PermissionRequests == PermissionUpdates \cup {[permissions |-> {"root:all"}]}

\* the updates a caller of TokenService.update_token may pass
CallerUpdates ==
    {[rateLimit |-> 5],
     [expiresAt |-> Aware("UTC", now)],
     [expiresAt |-> Aware("UTC", now + ISTOffset)],
     [ipRestrictions |-> <<Net24>>],
     [ipRestrictions |-> <<Net24Lf>>],
     [ipRestrictions |-> <<Net33>>],
     [permissions |-> {"root:all"}],
     [tokenPreview |-> generate_token_preview(generate_api_token(0))],
     [tokenHash |-> hash_password(generate_api_token(0), 0)],
     [userId |-> "B"],
     [_id |-> MaxTokens + 1]}

\* Every path that writes a token record, with the inputs a caller can send.
NextWrite ==
    \/ Tick /\ UNCHANGED aux
    \/ \E d \in CreateRequests :
          /\ route_create_api_token("A", d)
          /\ req' = d
          /\ UNCHANGED <<sessions, gate, service, signed>>
    \/ \E u \in Users, i \in TokenIds, d \in PermissionRequests :
          update_token_permissions(u, i, d) /\ UNCHANGED aux
    \/ \E u \in Users, i \in TokenIds, d \in CallerUpdates :
          update_token(u, i, d) /\ UNCHANGED aux
    \/ \E u \in Users, i \in TokenIds : regenerate_api_token(u, i) /\ UNCHANGED aux

SpecWrite == Init /\ [][NextWrite]_vars

(* ---------------------------- order of checks -------------------------- *)
\* what a route may require of a token
OrderPermissions ==
    {<<>>, <<"key:write">>, <<"key:delete", "key:write">>, <<"key:write", "key:delete">>}

\* Validations with every combination of client address, required
\* permissions and required scopes, against tokens with and without an
\* allow-list and an expiry; req keeps what the last validation was given.
NextOrder ==
    \/ Tick /\ UNCHANGED aux
    \/ \E r \in IpRestrictionInputs, e \in {NoDate, Aware("UTC", now + ISTOffset)} :
          create_api_token("A", r, e) /\ UNCHANGED aux
    \/ \E v \in Presented, rp \in OrderPermissions, rs \in RequiredScopes, c \in ClientIps :
          /\ validate_token_access(v, rp, rs, c)
          /\ req' = [token_value |-> v, required_permissions |-> rp,
                     required_scopes |-> rs, client_ip |-> c]
          /\ UNCHANGED <<sessions, gate, service, signed>>
    \/ \E i \in TokenIds, d \in PermissionUpdates : update_token_permissions("A", i, d) /\ UNCHANGED aux
    \/ \E i \in TokenIds : revoke_api_token("A", i) /\ UNCHANGED aux

SpecOrder == Init /\ [][NextOrder]_vars

(* --------------------------- allow-list matching ----------------------- *)
\* client addresses of a request, and the entries of an allow-list: single
\* addresses, networks of several prefix lengths, one written with host bits
\* set, and one followed by a line feed
QueryIps == {NoIp, Inside, Outside, <<10, 0, 0, 0>>, <<10, 0, 0, 255>>, <<11, 0, 0, 5>>}
QueryEntries ==
    {Net24, Net24Lf,
     [addr |-> Inside, prefix |-> NoPrefix, lf |-> FALSE],
     [addr |-> Outside, prefix |-> NoPrefix, lf |-> FALSE],
     [addr |-> Inside, prefix |-> 32, lf |-> FALSE],
     [addr |-> <<10, 0, 1, 0>>, prefix |-> 23, lf |-> FALSE],
     [addr |-> <<10, 0, 0, 0>>, prefix |-> 8, lf |-> FALSE],
     [addr |-> <<0, 0, 0, 0>>, prefix |-> 0, lf |-> FALSE]}
IpQueries ==
    {[client_ip |-> c, ip_restrictions |-> r] :
        c \in QueryIps,
        r \in {<<>>} \cup {<<e>> : e \in QueryEntries}
                     \cup {<<e, f>> : e \in QueryEntries, f \in QueryEntries}}

\* the state in which _check_ip_restriction is called on a client address
\* and an allow-list
InitIp ==
    /\ tokens = <<>>
    /\ now = 0
    /\ drawn = 0
    /\ resp = Response("start", None, 0, 0, TRUE, NoMsg, NoBody, NoToken)
    /\ retired = {}
    /\ lazyExpired = {}
    /\ procs = [p \in Workers |-> Idle(0, FALSE)]
    /\ sessions = {}
    /\ gate = GateResponse("none", 0, None, NoMsg, NoMsg, None, NoToken)
    /\ req \in IpQueries
    /\ service = [module |-> "unloaded", is_running |-> FALSE, thread |-> "none",
                  loops |-> 0]
    /\ signed = {}

\* the call TokenService._check_ip_restriction(client_ip, ip_restrictions)
call_check_ip_restriction ==
    /\ resp.op = "start"
    /\ resp' = Response("check_ip", None, 0, 0,
                        check_ip_restriction(req.client_ip, req.ip_restrictions),
                        NoMsg, NoBody, NoToken)
    /\ UNCHANGED <<tokens, now, drawn, retired, lazyExpired, procs>>
    /\ UNCHANGED aux

NextIp == call_check_ip_restriction

SpecIp == InitIp /\ [][NextIp]_vars

(* ------------------------- authentication gates ------------------------ *)
\* Config.JWT_EXPIRE_MINUTES, and the same in half hours
JWT_EXPIRE_MINUTES == 1440
JwtExpire == JWT_EXPIRE_MINUTES \div 30

\* generate_jwt: the payload with its expiry, signed with Config.JWT_SECRET
generate_jwt(payload) ==
    [userId |-> payload.userId, exp |-> now + JwtExpire, key |-> "JWT_SECRET"]

\* a JWT signed with another key
ForgedJwt == [userId |-> "A", exp |-> JwtExpire, key |-> "other"]

\* verify_jwt: the payload of a token that decodes under Config.JWT_SECRET
\* and has not expired, NoBody for None
verify_jwt(token) ==
    IF /\ "key" \in DOMAIN token
       /\ token.key = "JWT_SECRET"
       /\ token.exp > now
    THEN [userId |-> token.userId, exp |-> token.exp]
    ELSE NoBody

\* AuthService login: generate_jwt, then Session.create_session
login(user_id) ==
    LET token == generate_jwt([userId |-> user_id])
    IN  /\ Cardinality(signed) < MaxLogins
        /\ sessions' = sessions \cup {token}
        /\ signed' = signed \cup {token}
        /\ UNCHANGED <<tokens, now, drawn, resp, retired, lazyExpired, procs,
                       gate, req, service>>

\* Session.delete_session
delete_session(token) ==
    /\ token \in sessions
    /\ sessions' = sessions \ {token}
    /\ UNCHANGED <<tokens, now, drawn, resp, retired, lazyExpired, procs,
                   gate, req, service, signed>>

\* the Authorization header of a request: none, another scheme, or a bearer
\* credential that is a token value or a JWT
NoHeader == [scheme |-> "None", token |-> NoToken]
Credentials == Presented \cup signed \cup {ForgedJwt}
AuthHeaders ==
    {NoHeader, [scheme |-> "Basic", token |-> NoToken]}
        \cup {[scheme |-> "Bearer", token |-> c] : c \in Credentials}

\* the words of a message as message.lower() shows them to a substring test
LowerWord(w) ==
    CASE w = "IP" -> "ip"
      [] w = "Token" -> "token"
      [] w = "Invalid" -> "invalid"
      [] w = "Insufficient" -> "insufficient"
      [] w = "permissions:" -> "permissions"
      [] OTHER -> w
\* needle in message.lower(), for a needle of one or two words
InMessage(needle, message) ==
    \E k \in 1..Len(message) :
        /\ k + Len(needle) - 1 <= Len(message)
        /\ \A j \in 1..Len(needle) : LowerWord(message[k + j - 1]) = needle[j]

\* api_token_required: the code chosen for a message of the validator
error_code(message) ==
    IF InMessage(<<"expired">>, message) THEN "TOKEN_EXPIRED"
    ELSE IF InMessage(<<"ip", "address">>, message) THEN "IP_RESTRICTED"
    ELSE IF InMessage(<<"permissions">>, message) THEN "INSUFFICIENT_PERMISSIONS"
    ELSE "INVALID_TOKEN"

\* api_token_required(required_permissions, required_scopes)
api_token_required(required_permissions, required_scopes, auth_header, client_ip) ==
    /\ IF auth_header.scheme # "Bearer"
       THEN /\ gate' = GateResponse("api", 401, None,
                           <<"Missing", "or", "invalid", "authorization", "header">>,
                           <<"Authorization", "header", "must", "be:", "Bearer", "<token>">>,
                           None, NoToken)
            /\ UNCHANGED <<tokens, now, drawn, resp, retired, lazyExpired, procs>>
       ELSE /\ validate_token_access(auth_header.token, required_permissions,
                                     required_scopes, client_ip)
            /\ gate' = IF resp'.ok
                       THEN GateResponse("api", 200, "api_token", NoMsg, NoMsg, None,
                                         auth_header.token)
                       ELSE GateResponse("api", 401, None,
                                         <<"Authentication", "failed">>, resp'.msg,
                                         error_code(resp'.msg), auth_header.token)
    /\ UNCHANGED <<sessions, req, service, signed>>

hybrid_auth_response_by_message(is_valid, message, jwt_payload, token) ==
    IF is_valid
    THEN GateResponse("hybrid", 200, "api_token", NoMsg, NoMsg, None, token)
    ELSE IF jwt_payload # NoBody
    THEN GateResponse("hybrid", 200, "jwt", NoMsg, NoMsg, None, token)
    ELSE GateResponse("hybrid", 401, None, <<"Authentication", "failed">>,
                      message, error_code(message), token)

\* hybrid_auth after the validator's answer: the API token if it was
\* granted, else the JWT if it verifies, else the one refusal
hybrid_auth_response(is_valid, message, jwt_payload, token) ==
    IF is_valid
    THEN GateResponse("hybrid", 200, "api_token", NoMsg, NoMsg, None, token)
    ELSE IF jwt_payload # NoBody
    THEN GateResponse("hybrid", 200, "jwt", NoMsg, NoMsg, None, token)
    ELSE GateResponse("hybrid", 401, None, <<"Invalid", "token">>,
                      <<"Token", "is", "not", "a", "valid", "JWT", "or", "API", "token">>,
                      "INVALID_TOKEN", token)

\* hybrid_auth
hybrid_auth(auth_header, client_ip) ==
    /\ IF auth_header.scheme # "Bearer"
       THEN /\ gate' = GateResponse("hybrid", 401, None,
                           <<"Missing", "authorization", "header">>, NoMsg, None, NoToken)
            /\ UNCHANGED <<tokens, now, drawn, resp, retired, lazyExpired, procs>>
       ELSE /\ validate_token_access(auth_header.token, <<>>, <<>>, client_ip)
            /\ gate' = hybrid_auth_response(resp'.ok, resp'.msg,
                                            verify_jwt(auth_header.token),
                                            auth_header.token)
    /\ UNCHANGED <<sessions, req, service, signed>>

\* what the routes behind api_token_required ask of a token
RouteRequirements == {<<<<>>, <<>>>>, <<<<"key:write">>, <<>>>>, <<<<>>, <<"vault">>>>}

\* Requests through the two middlewares, with logins and the deletion of
\* session records, against tokens with and without an IP allow-list.
NextGate ==
    \/ Tick /\ UNCHANGED aux
    \/ \E r \in IpRestrictionInputs, e \in {NoDate, Aware("UTC", now + ISTOffset)} :
          create_api_token("A", r, e) /\ UNCHANGED aux
    \/ \E i \in TokenIds : revoke_api_token("A", i) /\ UNCHANGED aux
    \/ login("A")
    \/ \E t \in sessions : delete_session(t)
    \/ \E h \in AuthHeaders, c \in {Inside, Outside} : hybrid_auth(h, c)
    \/ \E h \in AuthHeaders, c \in {Inside, Outside}, r \in RouteRequirements :
          api_token_required(r[1], r[2], h, c)

SpecGate == Init /\ [][NextGate]_vars

(* ------------------------ token_cleanup_service.py --------------------- *)
\* the names app/utils/security.py defines
SecurityExports ==
    {"IST", "get_current_ist_time", "get_current_utc_time", "format_datetime_for_db",
     "hash_password", "verify_password", "generate_jwt", "verify_jwt",
     "generate_verification_code", "generate_api_token", "generate_token_preview",
     "is_token_expired", "calculate_expiry_time", "parse_expiration_date"}
\* from app.utils.security import get_current_ist_datetime
CleanupServiceImports == {"get_current_ist_datetime"}

\* what is left of the service when its module cannot be imported
ImportFailed ==
    [module |-> "ImportError", is_running |-> FALSE, thread |-> "none", loops |-> 0]

\* Importing the module and calling token_cleanup_service.start(): the
\* import raises ImportError unless security.py defines every imported name;
\* start() does nothing while is_running holds, and otherwise sets the flag
\* and starts a daemon thread on _run_cleanup_loop.
start_cleanup_service ==
    /\ service' = IF ~(CleanupServiceImports \subseteq SecurityExports)
                  THEN ImportFailed
                  ELSE IF service.is_running \/ service.loops >= MaxLoops
                  THEN [service EXCEPT !.module = "loaded"]
                  ELSE [module |-> "loaded", is_running |-> TRUE, thread |-> "alive",
                        loops |-> service.loops + 1]
    /\ UNCHANGED <<tokens, now, drawn, resp, retired, lazyExpired, procs,
                   sessions, gate, req, signed>>

\* Importing the module and calling token_cleanup_service.stop(): stop()
\* clears the flag and joins the thread for at most five seconds; a loop
\* that has not read the flag by then is left running.
stop_cleanup_service ==
    /\ service' = IF ~(CleanupServiceImports \subseteq SecurityExports)
                  THEN ImportFailed
                  ELSE [service EXCEPT !.module = "loaded", !.is_running = FALSE]
    /\ UNCHANGED <<tokens, now, drawn, resp, retired, lazyExpired, procs,
                   sessions, gate, req, signed>>

\* the documents a sweep finds: active, with an expiresAt before current_utc
SweepFinds(coll, current_utc) ==
    {i \in DOMAIN coll :
        /\ coll[i].status = "active"
        /\ coll[i].expiresAt # NoDate
        /\ coll[i].expiresAt.t < current_utc}

\* TokenCleanupService.cleanup_expired_tokens: find({"status": "active",
\* "expiresAt": {"$lt": current_utc}}) and the $set of each document found
TokenCleanupService_cleanup_expired_tokens(coll, current_utc) ==
    [i \in DOMAIN coll |->
        IF /\ coll[i].status = "active"
           /\ coll[i].expiresAt # NoDate
           /\ coll[i].expiresAt.t < current_utc
        THEN SetExpired(coll, i)[i] ELSE coll[i]]

\* One turn of a sweeper thread, with the store reachable:
\* TokenCleanupService._run_cleanup_loop reads is_running, and runs a sweep
\* and sleeps if it holds, and returns if not; without a thread the turn
\* does nothing.
run_cleanup_loop ==
    /\ tokens' = IF service.thread = "alive" /\ service.loops > 0 /\ service.is_running
                 THEN TokenCleanupService_cleanup_expired_tokens(tokens, now)
                 ELSE tokens
    /\ service' = IF service.loops > 0 /\ ~service.is_running
                  THEN [service EXCEPT !.loops = @ - 1]
                  ELSE service
    /\ UNCHANGED <<now, drawn, resp, retired, lazyExpired, procs,
                   sessions, gate, req, signed>>

\* One turn of a sweeper thread in which the store raises, at the find (0)
\* or at the update of one of the documents found: the documents found
\* before that one are marked, the exception is printed and the loop sleeps.
run_cleanup_loop_store_error ==
    /\ \E k \in {0} \cup SweepFinds(tokens, now) :
          tokens' = IF service.thread = "alive" /\ service.loops > 0 /\ service.is_running
                    THEN [i \in DOMAIN tokens |->
                            IF k # 0 /\ i < k /\ i \in SweepFinds(tokens, now)
                            THEN SetExpired(tokens, i)[i] ELSE tokens[i]]
                    ELSE tokens
    /\ UNCHANGED <<now, drawn, resp, retired, lazyExpired, procs,
                   sessions, gate, req, service, signed>>

\* A server that is asked to run and to stop the sweeper, with tokens that
\* are created, revoked and regenerated but never validated or listed.
NextSweep ==
    \/ Tick /\ UNCHANGED aux
    \/ \E u \in Users, e \in ExpiresAtInputs : create_api_token(u, <<>>, e) /\ UNCHANGED aux
    \/ \E u \in Users, i \in TokenIds : revoke_api_token(u, i) /\ UNCHANGED aux
    \/ \E u \in Users, i \in TokenIds : regenerate_api_token(u, i) /\ UNCHANGED aux
    \/ start_cleanup_service
    \/ stop_cleanup_service
    \/ run_cleanup_loop
    \/ run_cleanup_loop_store_error

\* the clock advances, a requested start is carried out and the sweeper's
\* turn comes round
SpecSweep ==
    /\ Init /\ [][NextSweep]_vars
    /\ WF_vars(Tick /\ UNCHANGED aux)
    /\ WF_vars(start_cleanup_service)
    /\ WF_vars(run_cleanup_loop)

(* ------------------------------ properties ----------------------------- *)
Issued == {generate_api_token(n) : n \in 1..drawn}
\* the _ids of the documents whose hash verifies a token value
Matching(coll, token_value) ==
    {i \in DOMAIN coll : verify_password(token_value, coll[i].tokenHash)}
InvalidToken == <<"Invalid", "token">>
TokenInactive(status) == <<"Token", "is", status>>
TokenExpired == <<"Token", "has", "expired">>
NotFound == <<"Token", "not", "found">>

\* C1: a record whose status is expired or revoked never changes status
\* again; in particular revoke leaves an expired record expired.
C1_TerminalStatus ==
    [][\A i \in DOMAIN tokens :
          tokens[i].status \in {"expired", "revoked"}
              => tokens'[i].status = tokens[i].status]_vars

\* C2: every record is created active, and the only changes of status are
\* active -> expired and active -> revoked.
C2_StatusMachine ==
    [][\A i \in DOMAIN tokens' :
          IF i \in DOMAIN tokens
          THEN \/ tokens'[i].status = tokens[i].status
               \/ /\ tokens[i].status = "active"
                  /\ tokens'[i].status \in {"expired", "revoked"}
          ELSE tokens'[i].status = "active"]_vars

\* a validate has just answered for the secret of a revoked record
RevokedSecretPresented ==
    /\ resp.op = "validate"
    /\ \E i \in Matching(tokens, resp.token_value) : tokens[i].status = "revoked"

\* C3: after a revoke, validate with the secret of a revoked record fails with
\* TokenInactive(revoked).
C3_RevokedNamed ==
    RevokedSecretPresented => ~resp.ok /\ resp.msg = TokenInactive("revoked")

\* C4: a revoke by the owner of an already revoked record changes nothing
\* and is answered as a success by the service and by the route.
C4_RevokeIdempotent ==
    [][(/\ resp'.op = "revoke"
        /\ resp'.id \in DOMAIN tokens
        /\ tokens[resp'.id].userId = resp'.user
        /\ tokens[resp'.id].status = "revoked")
       => (tokens' = tokens /\ resp'.ok /\ resp'.http = 200)]_vars

\* C5: validate with the secret of an active record whose expiresAt has
\* passed marks it expired and fails with TokenExpired; every later validate
\* with that secret fails with TokenInactive(expired).
C5_LazyExpiry ==
    [][resp'.op = "validate" =>
        \A i \in Matching(tokens, resp'.token_value) :
           /\ (tokens[i].status = "active" /\ now > tokens[i].expiresAt.t)
                 => /\ tokens'[i].status = "expired"
                    /\ ~resp'.ok /\ resp'.msg = TokenExpired
           /\ i \in lazyExpired
                 => ~resp'.ok /\ resp'.msg = TokenInactive("expired")]_vars

\* C8: after a regenerate the record verifies the new secret and no record
\* verifies the old one, its usage is reset, a validate with an old secret
\* fails with InvalidToken, and a validate with the secret of an active,
\* unexpired record succeeds.
C8_Regenerate ==
    /\ (resp.op = "regenerate" /\ resp.ok) =>
          /\ tokens[resp.id].apiCalls = 0
          /\ tokens[resp.id].lastUsed = NoDate
          /\ tokens[resp.id].lastUsedIp = NoIp
          /\ resp.id \in Matching(tokens, resp.body.token)
          /\ \A old \in retired : Matching(tokens, old) = {}
    /\ (resp.op = "validate" /\ resp.token_value \in retired) =>
          ~resp.ok /\ resp.msg = InvalidToken
    /\ (resp.op = "validate" /\ retired # {}) =>
          \A i \in Matching(tokens, resp.token_value) :
             (/\ tokens[i].status = "active"
              /\ ~is_token_expired(LocalizeIST(Doc(tokens, i)).expiresAt, now))
                 => resp.ok

\* an old secret is refused after the new one has been used
C8_Witness ==
    /\ resp.op = "validate"
    /\ resp.token_value \in retired
    /\ \E i \in DOMAIN tokens : tokens[i].apiCalls > 0 /\ tokens[i].status = "active"

\* the text fields of a response body
TextOf(body) ==
    {body[k] : k \in DOMAIN body \cap {"token", "tokenPreview", "tokenHash"}}
Secrets == Issued \cup {tokens[i].tokenHash : i \in DOMAIN tokens}

\* C9: the store holds no raw secret; the response of a create or regenerate
\* carries the secret that call drew; no other response carries a raw
\* secret or a stored hash.
C9_SecretOnce ==
    /\ \A i \in DOMAIN tokens :
          tokens[i].tokenHash \notin Issued /\ tokens[i].tokenPreview \notin Issued
    /\ (resp.op \in {"create", "regenerate"} /\ resp.ok) =>
          /\ resp.body.token = generate_api_token(drawn)
          /\ resp.id \in Matching(tokens, resp.body.token)
    /\ resp.op = "list" =>
          /\ \A k \in 1..Len(resp.body.tokens) :
                TextOf(resp.body.tokens[k]) \cap Secrets = {}
          /\ TextOf(resp.body.stats) \cap Secrets = {}
    /\ resp.op \in {"details", "stats", "permissions", "update", "validate", "revoke"} =>
          TextOf(resp.body) \cap Secrets = {}

\* a listing that shows a token
C9_Witness ==
    resp.op = "list" /\ Len(resp.body.tokens) > 0

OwnerOps == {"create", "list", "details", "stats", "regenerate", "revoke",
             "permissions", "update"}

\* C10: a request of one user leaves every record of another user
\* unchanged, and, aimed at another user's record, is answered not found.
C10_OwnerIsolation ==
    [][resp'.op \in OwnerOps =>
        /\ \A i \in DOMAIN tokens :
              tokens[i].userId # resp'.user => tokens'[i] = tokens[i]
        /\ (/\ resp'.op \in {"details", "regenerate", "revoke", "permissions", "update"}
            /\ resp'.id \in DOMAIN tokens
            /\ tokens[resp'.id].userId # resp'.user)
              => ~resp'.ok /\ resp'.msg = NotFound]_vars

\* a user has just asked to revoke another user's record
C10_Witness ==
    /\ resp.op = "revoke"
    /\ resp.id \in DOMAIN tokens
    /\ tokens[resp.id].userId # resp.user

RECURSIVE SumCalls(_, _)
SumCalls(coll, n) == IF n = 0 THEN 0 ELSE coll[n].apiCalls + SumCalls(coll, n - 1)
RECURSIVE SumGranted(_, _)
SumGranted(w, n) == IF n = 0 THEN 0 ELSE w[n].granted + SumGranted(w, n - 1)

\* C6: every granted validation adds exactly one to the usage count of its
\* record, also when validations of several threads overlap: the counts of
\* the store add up to the number of validations granted.
C6_CountsEveryGrant ==
    /\ SumCalls(tokens, Len(tokens)) = SumGranted(procs, MaxProcs)
    /\ (resp.op = "validate" /\ resp.ok) => tokens[resp.id].apiCalls >= 1

\* two threads were granted, one of them on a document the other had
\* already counted on
C6_Witness ==
    /\ \A p \in Workers : procs[p].granted >= 1
    /\ \E p \in Workers : procs[p].raced

Usage(doc) == <<doc.apiCalls, doc.lastUsed, doc.lastUsedIp>>

\* C7: a validate that fails, whatever the reason, leaves apiCalls, lastUsed
\* and lastUsedIp of every record as they were; a validate that is granted
\* changes them on the validated record only.
C7_UsageOnlyOnSuccess ==
    [][resp'.op = "validate" =>
        /\ DOMAIN tokens' = DOMAIN tokens
        /\ \A i \in DOMAIN tokens :
              (~resp'.ok \/ i # resp'.id) => Usage(tokens'[i]) = Usage(tokens[i])
        /\ resp'.ok => tokens'[resp'.id].apiCalls = tokens[resp'.id].apiCalls + 1]_vars

\* a validate was refused for a missing permission on a token used before
C7_Witness ==
    /\ resp.op = "validate"
    /\ ~resp.ok
    /\ resp.msg[1] = "Insufficient"
    /\ resp.id \in DOMAIN tokens
    /\ tokens[resp.id].apiCalls > 0

\* C11: the hybrid gate lets a JWT through only while the sessions
\* collection holds a record for it.
C11_SessionRequired ==
    [][(gate' # gate /\ gate'.mw = "hybrid" /\ gate'.auth_type = "jwt")
          => gate'.token \in sessions]_vars

GenericRefusal(token) ==
    GateResponse("hybrid", 401, None, <<"Invalid", "token">>,
                 <<"Token", "is", "not", "a", "valid", "JWT", "or", "API", "token">>,
                 "INVALID_TOKEN", token)

\* C12: the hybrid gate runs the API-token validation, without required
\* permissions or scopes, on every bearer credential; a granted validation
\* decides the request as an API token, the JWT counts only when the
\* validation failed, and when both fail the answer is the same 401 whatever
\* the validation's reason.
C12_HybridOrder ==
    [][(gate' # gate /\ gate'.mw = "hybrid" /\ gate'.token # NoToken) =>
         /\ resp'.op = "validate" /\ resp'.token_value = gate'.token
         /\ resp'.ok <=> gate'.auth_type = "api_token"
         /\ gate'.auth_type = "jwt" <=> (~resp'.ok /\ gate'.token \in signed)
         /\ gate'.auth_type = None => gate' = GenericRefusal(gate'.token)]_vars

\* the hybrid gate refused a token that the validator had refused for its
\* IP allow-list
C12_Witness ==
    /\ gate.mw = "hybrid"
    /\ gate.http = 401
    /\ resp.op = "validate"
    /\ resp.token_value = gate.token
    /\ resp.msg[1] = "IP"

\* the code the contract gives a refusal of api_token_required
ExpectedCode(g) ==
    IF g.token = NoToken THEN "MISSING_TOKEN"
    ELSE IF g.message \in {TokenExpired, TokenInactive("expired")} THEN "TOKEN_EXPIRED"
    ELSE IF g.message[1] = "IP" THEN "IP_RESTRICTED"
    ELSE IF g.message[1] = "Insufficient" THEN "INSUFFICIENT_PERMISSIONS"
    ELSE "INVALID_TOKEN"

\* C13: every refusal of api_token_required is a 401 that carries the code
\* of its cause: MISSING_TOKEN, TOKEN_EXPIRED, IP_RESTRICTED,
\* INSUFFICIENT_PERMISSIONS (permission or scope) or INVALID_TOKEN.
C13_ErrorCodes ==
    (gate.mw = "api" /\ gate.auth_type = None) =>
        gate.http = 401 /\ gate.code = ExpectedCode(gate)

\* an active record whose expiresAt is earlier than now
Overdue(i) ==
    IF i \in DOMAIN tokens
    THEN /\ tokens[i].status = "active"
         /\ tokens[i].expiresAt # NoDate
         /\ tokens[i].expiresAt.t < now
    ELSE FALSE

C15_ExpireOnlyActive ==
    [][\A i \in DOMAIN tokens :
          (tokens'[i].status = "expired" /\ tokens[i].status # "expired")
              => tokens[i].status = "active"]_vars

\* C16: the preview of every record is the preview of the secret its hash
\* verifies.
C16_PreviewMatchesHash ==
    \A i \in DOMAIN tokens :
        \E secret \in Issued \cup {generate_api_token(0)} :
            /\ verify_password(secret, tokens[i].tokenHash)
            /\ tokens[i].tokenPreview = generate_token_preview(secret)

\* C17: no operation changes the owner of a record or removes the record
\* from under its id.
C17_OwnerImmutable ==
    [][\A i \in DOMAIN tokens :
          i \in DOMAIN tokens' /\ tokens'[i].userId = tokens[i].userId]_vars

\* C18: a creation request without expiresAt stores now + 90 days; one whose
\* expiresAt is not later than now is refused with a 400 and inserts nothing;
\* a later expiresAt is stored as given.
C18_ExpiryAtIssue ==
    [][resp'.op = "create" =>
        LET e == req'.expiresAt
        IN  /\ (e # NoDate /\ e.t <= now) =>
                  (tokens' = tokens /\ ~resp'.ok /\ resp'.http = 400)
            /\ resp'.ok =>
                  /\ Len(tokens') = Len(tokens) + 1
                  /\ tokens'[resp'.id].expiresAt.t =
                        IF e = NoDate THEN now + 90 * 48 ELSE e.t]_vars

\* a request whose expiresAt is exactly now was refused
C18_Witness ==
    /\ resp.op = "create"
    /\ ~resp.ok
    /\ req.permissions \subseteq valid_permissions
    /\ req.expiresAt # NoDate
    /\ req.expiresAt.t = now

\* C19: the permissions of every record lie in the permission vocabulary.
C19_PermissionVocabulary ==
    \A i \in DOMAIN tokens : tokens[i].permissions \subseteq valid_permissions

\* the entry grammar: four octets 0..255, optionally "/" and a prefix length
\* 0..32, and nothing else
WellFormedEntry(e) ==
    /\ Len(e.addr) = 4
    /\ \A k \in 1..4 : e.addr[k] \in 0..255
    /\ e.prefix = NoPrefix \/ e.prefix \in 0..32
    /\ ~e.lf

\* C20: every allow-list entry of every record matches the entry grammar.
C20_EntriesWellFormed ==
    \A i \in DOMAIN tokens :
        \A k \in 1..Len(tokens[i].ipRestrictions) :
            WellFormedEntry(tokens[i].ipRestrictions[k])

\* C21: the permissions and scopes of a record whose status is revoked or
\* expired never change, also when a permission update overlaps a revoke or
\* an expiry.
C21_PermissionsOnlyWhileActive ==
    [][\A i \in DOMAIN tokens :
          tokens[i].status \in {"revoked", "expired"}
              => /\ tokens'[i].permissions = tokens[i].permissions
                 /\ tokens'[i].scopes = tokens[i].scopes]_vars

\* the fields of a record a regenerate keeps
Kept(doc) ==
    <<doc.userId, doc.status, doc.permissions, doc.scopes, doc.ipRestrictions,
      doc.rateLimit, doc.expiresAt>>

\* C22: a regenerate aimed at a record that is not active is refused and
\* changes nothing; a regenerate that succeeds leaves every other record as
\* it was and keeps the owner, status, permissions, scopes, allow-list, rate
\* limit and expiresAt of its record under the same id.
C22_RegenerateFrame ==
    [][resp'.op = "regenerate" =>
        /\ DOMAIN tokens' = DOMAIN tokens
        /\ \A i \in DOMAIN tokens : i # resp'.id => tokens'[i] = tokens[i]
        /\ (resp'.id \in DOMAIN tokens /\ tokens[resp'.id].status # "active")
              => (~resp'.ok /\ tokens' = tokens)
        /\ ~resp'.ok => tokens' = tokens
        /\ resp'.ok => Kept(tokens'[resp'.id]) = Kept(tokens[resp'.id])]_vars

\* a record with an expiry and changed permissions has been regenerated
C22_Witness ==
    /\ resp.op = "regenerate"
    /\ resp.ok
    /\ tokens[resp.id].expiresAt # NoDate
    /\ tokens[resp.id].permissions = {"key:read", "key:write"}

\* C23: an update that is refused leaves the store as it was; an update that
\* is accepted leaves a rate limit within 1..10000, an expiresAt it changed
\* later than now, and an allow-list it changed with well-formed entries only.
C23_UpdateValidated ==
    [][resp'.op = "update" =>
        /\ ~resp'.ok => tokens' = tokens
        /\ resp'.ok =>
              LET before == tokens[resp'.id]
                  after == tokens'[resp'.id]
              IN  /\ after.rateLimit \in 1..10000
                  /\ after.expiresAt # before.expiresAt => after.expiresAt.t > now
                  /\ after.ipRestrictions # before.ipRestrictions =>
                        \A k \in 1..Len(after.ipRestrictions) :
                            WellFormedEntry(after.ipRestrictions[k])]_vars

\* the addresses of a network: from the entry's address with its host bits
\* cleared, as many as the prefix length leaves
Contains(e, client_ip) ==
    IF e.prefix = 0 THEN TRUE
    ELSE LET size == Pow2(32 - e.prefix)
             base == IpInt(e.addr) - (IpInt(e.addr) % size)
         IN  base <= IpInt(client_ip) /\ IpInt(client_ip) < base + size

\* C24: for an allow-list of well-formed entries the answer is true exactly
\* when the list is empty, or the client address is present and equals a
\* single-address entry or lies in the network of a CIDR entry; with
\* 10.0.0.0/24 the answer is true for 10.0.0.5 and false for 10.0.1.5; with a
\* list that is not empty an absent client address is refused.
C24_IpAllowed ==
    resp.op = "check_ip" =>
        LET c == req.client_ip
            r == req.ip_restrictions
        IN  /\ (\A k \in 1..Len(r) : WellFormedEntry(r[k])) =>
                  (resp.ok <=>
                      \/ Len(r) = 0
                      \/ /\ c # NoIp
                         /\ \E k \in 1..Len(r) :
                               IF r[k].prefix = NoPrefix THEN r[k].addr = c
                               ELSE Contains(r[k], c))
            /\ (r = <<Net24>> /\ c = Inside) => resp.ok
            /\ (r = <<Net24>> /\ c = Outside) => ~resp.ok
            /\ (Len(r) > 0 /\ c = NoIp) => ~resp.ok
            /\ Len(r) = 0 => resp.ok

\* 10.0.1.5 was refused against 10.0.0.0/24
C24_Witness ==
    /\ resp.op = "check_ip"
    /\ req.ip_restrictions = <<Net24>>
    /\ req.client_ip = Outside
    /\ ~resp.ok

\* the first element of a required list that a set lacks, 0 when it lacks none
FirstMissing(required, have) ==
    LET lacking == {k \in 1..Len(required) : required[k] \notin have}
    IN  IF lacking = {} THEN 0 ELSE CHOOSE k \in lacking : \A j \in lacking : k <= j

\* C25: the answer of a validation is that of the first failing check in the
\* order status, expiry, allow-list, required permissions, required scopes:
\* a request outside the allow-list that also lacks a permission is refused
\* for its address, and of several missing permissions the first of the
\* required list is named.
C25_CheckOrder ==
    [][(resp'.op = "validate" /\ resp'.id # 0) =>
        LET t == tokens[resp'.id]
            c == req'.client_ip
            rp == req'.required_permissions
            rs == req'.required_scopes
            outside == /\ Len(t.ipRestrictions) > 0
                       /\ (c = NoIp \/ ~check_ip_restriction(c, t.ipRestrictions))
        IN  IF t.status # "active" THEN resp'.msg = TokenInactive(t.status)
            ELSE IF is_token_expired(LocalizeIST(Doc(tokens, resp'.id)).expiresAt, now)
            THEN resp'.msg = TokenExpired
            ELSE IF outside THEN ~resp'.ok /\ resp'.msg[1] = "IP"
            ELSE IF FirstMissing(rp, t.permissions) # 0
            THEN resp'.msg = <<"Insufficient", "permissions:",
                               rp[FirstMissing(rp, t.permissions)]>>
            ELSE IF FirstMissing(rs, t.scopes) # 0
            THEN resp'.msg = <<"Insufficient", "scopes:",
                               rs[FirstMissing(rs, t.scopes)]>>
            ELSE resp'.ok]_vars

\* a request from outside the allow-list that lacked two permissions was
\* refused for its address
C25_Witness ==
    /\ resp.op = "validate"
    /\ resp.id # 0
    /\ resp.msg[1] = "IP"
    /\ req.client_ip = Outside
    /\ Len(req.required_permissions) = 2
    /\ \A k \in 1..2 : req.required_permissions[k] \notin tokens[resp.id].permissions

\* C27: a record is marked expired, by the validator, a listing, a detail
\* request or a cleanup, only when now is later than its expiresAt, and a
\* validation answers TokenExpired only then.
C27_ExpiredOnlyAfterExpiry ==
    [][\A i \in DOMAIN tokens :
          (\/ tokens[i].status # "expired" /\ tokens'[i].status = "expired"
           \/ resp'.op = "validate" /\ resp'.id = i /\ resp'.msg = TokenExpired)
              => (tokens[i].expiresAt # NoDate /\ now > tokens[i].expiresAt.t)]_vars

\* C28: the usage count, last use and last address of a record whose status
\* is revoked or expired never change, also when a validation that read the
\* record as active finishes after the revoke.
C28_NoUsageAfterTerminal ==
    [][\A i \in DOMAIN tokens :
          tokens[i].status \in {"revoked", "expired"}
              => Usage(tokens'[i]) = Usage(tokens[i])]_vars

\* C29: the usage count of a record grows only by a granted validation of
\* the secret its hash verifies at that moment: a validation of the old
\* secret that finishes after a regenerate is neither granted nor counted.
C29_CountsNewSecretOnly ==
    [][\A i \in DOMAIN tokens :
          tokens'[i].apiCalls > tokens[i].apiCalls
              => /\ resp'.op = "validate" /\ resp'.ok
                 /\ verify_password(resp'.token_value, tokens[i].tokenHash)]_vars

\* C26: a turn of the sweeper in which the store raises ends no loop and
\* changes no record, and a loop ends only once is_running has been cleared.
C26_SweepFailureNotFatal ==
    [][/\ run_cleanup_loop_store_error => (service' = service /\ tokens' = tokens)
       /\ service'.loops < service.loops => ~service.is_running]_vars

\* a sweeper loop is running
C26_LoopRunning ==
    service.loops > 0 /\ service.is_running

\* C30: whatever the calls of start() and stop(), at most one cleanup loop
\* thread exists.
C30_SingleLoop ==
    service.loops <= 1

\* start() has been called and a loop thread exists
C30_LoopStarted ==
    service.module = "loaded" /\ service.loops = 1

====
